---------------------------- MODULE Spec2Model ----------------------------
(***************************************************************************)
(* GA-VRPTW: route construction heuristics for the vehicle routing problem *)
(* with time windows.  The module models the feasibility oracle            *)
(* (begin_time, check_time_windows), Solomon's insertion engine            *)
(* (insertion_heuristic, insertion_heuristic_st) and the sweep front-end   *)
(* (sweep_heuristic, bissect, calculate_angles).                           *)
(*                                                                         *)
(* Python lists are sequences (1-based here, 0-based in the source).       *)
(* Customer 0 is the depot.  Coordinates are taken on the axes at          *)
(* distances 3 and 4 from the depot, so that every Euclidean distance the  *)
(* source computes is an integer and the float arithmetic is exact.        *)
(***************************************************************************)
EXTENDS Integers, Sequences, FiniteSets, TLC

(***************************************************************************)
(* Bounds of the model.                                                    *)
(***************************************************************************)
NumCust == 3
MaxCapacity == 2
MaxVehicles == 2
MaxRoutes == 5

VARIABLES
    customers,          \* parse_file: customers[0] is the depot
    capacity,           \* problem.capacity
    vehicle_number,     \* problem.vehicle_number
    d,                  \* calculate_distances(customers); also passed as t
    i1_params,          \* [mu, lam, alpha_1, alpha_2]
    init_criterium,     \* 0: farthest, 1: earliest due date
    max_iter,           \* kmeans_vrptw: number of Lloyd iterations
    to_params,          \* time_oriented_nn: [delta_1, delta_2, delta_3]
    entry,              \* the function that was called
    pc,                 \* position in the running function
    raised,             \* the exception that ended the call, "" if none
    cluster,            \* insertion_heuristic_st: the pool passed in
    route,              \* the route under construction
    unrouted_customers, \* the engine's pool of customers not yet routed
    load,               \* the engine's running load
    routes,             \* the front-end's list of finished routes
    stdout,             \* what insertion_heuristic wrote at line 161
    clusters,           \* sweep_heuristic: sectors of the current round
    ci,                 \* sweep_heuristic: index of the sector being built
    sweep_unrouted,     \* sweep_heuristic: its own unrouted_customers
    round,              \* sweep_heuristic: 1 in phase 1, then 2, 3, ...
    probe_route,        \* oracle call: route argument
    probe_target,       \* oracle call: j argument of begin_time
    probe_u,            \* cost call: u argument of c11 and c12
    ret,                \* oracle call: the values returned
    kmeans_k,           \* kmeans_vrptw: k, the number of clusters asked for
    centroid_customers, \* kmeanspp_initialization: centroids
    kmeans_unrouted     \* kmeans_vrptw: its own unrouted_customers

vars == <<customers, capacity, vehicle_number, d, i1_params, init_criterium, max_iter,
          to_params,
          entry, pc, raised, cluster, route, unrouted_customers, load,
          routes, stdout, clusters, ci, sweep_unrouted, round,
          probe_route, probe_target, probe_u, ret,
          kmeans_k, centroid_customers, kmeans_unrouted>>

inputs == <<customers, capacity, vehicle_number, d, i1_params, init_criterium,
            max_iter, to_params>>

(***************************************************************************)
(* Python built-ins.                                                       *)
(***************************************************************************)
Max2(a, b) == IF a >= b THEN a ELSE b

Abs(a) == IF a < 0 THEN -a ELSE a

\* a list built element by element, as a tuple
List(f) == f \o <<>>

Range(s) == {s[k] : k \in 1..Len(s)}

\* max resolving ties to the last element instead of the first
PyMax_last_of_ties(s, key) ==
    s[CHOOSE m \in 1..Len(s) :
          /\ \A n \in 1..Len(s) : key[s[n]] <= key[s[m]]
          /\ \A n \in (m + 1)..Len(s) : key[s[n]] < key[s[m]]]

\* max(seq, key=...): the first element whose key is maximal; key is a
\* function on the elements
PyMax(s, key) ==
    s[CHOOSE k \in 1..Len(s) :
        /\ \A m \in 1..Len(s) : key[s[m]] <= key[s[k]]
        /\ \A m \in 1..(k - 1) : key[s[m]] < key[s[k]]]

\* min(seq, key=...): the first element whose key is minimal
PyMin(s, key) ==
    s[CHOOSE k \in 1..Len(s) :
        /\ \A m \in 1..Len(s) : key[s[m]] >= key[s[k]]
        /\ \A m \in 1..(k - 1) : key[s[m]] > key[s[k]]]

\* list.index(x): position of the first occurrence
PyIndex(s, x) == CHOOSE k \in 1..Len(s) : s[k] = x /\ \A m \in 1..(k - 1) : s[m] # x

\* list.remove(x): the list without the first occurrence of x
PyRemove(s, x) ==
    LET k == PyIndex(s, x)
    IN  List([m \in 1..(Len(s) - 1) |-> IF m < k THEN s[m] ELSE s[m + 1]])

\* list.insert(pos, x) with pos the 1-based position x takes
PyInsert(s, pos, x) ==
    List([m \in 1..(Len(s) + 1) |-> IF m < pos THEN s[m] ELSE IF m = pos THEN x ELSE s[m - 1]])

\* sorted(seq, key=...): stable insertion sort
RECURSIVE PySorted(_, _)
PySorted(s, key) ==
    IF s = <<>> THEN <<>>
    ELSE LET front == PySorted(SubSeq(s, 1, Len(s) - 1), key)
             x == s[Len(s)]
             \* x goes after every element whose key is <= its own
             pos == 1 + Cardinality({k \in 1..Len(front) : key[front[k]] <= key[x]})
         IN  PyInsert(front, pos, x)

\* a call either returns a value or raises
Return(v) == [raised |-> "", value |-> v]

Raise(e, v) == [raised |-> e, value |-> v]

(***************************************************************************)
(* Instances.                                                              *)
(***************************************************************************)
Customer(x, y, q, r, dd, s) ==
    [x_coord |-> x, y_coord |-> y, demand |-> q,
     ready_time |-> r, due_date |-> dd, service_time |-> s]

Depot == Customer(0, 0, 0, 1, 30, 0)

\* the customers an instance is drawn from, one on each half-axis and two
\* at the same place: an early due date, a wide window, an unreachable due
\* date, a wait with no demand, a return to the depot after its due date
CustomerKinds ==
    { Customer( 3,  0, 1,  0,  8, 1),
      Customer( 0,  4, 2,  0, 30, 0),
      Customer(-3,  0, 1,  0,  1, 0),
      Customer( 0, -4, 0, 14, 18, 2),
      Customer( 0,  4, 1, 27, 30, 0) }

Instances ==
    UNION { { [c \in 0..n |-> IF c = 0 THEN Depot ELSE f[c]] : f \in [1..n -> CustomerKinds] }
            : n \in 0..NumCust }

\* the four parameter sets of best_run
ParamSets ==
    { [mu |-> 1, lam |-> 2, alpha_1 |-> 1, alpha_2 |-> 0],
      [mu |-> 1, lam |-> 1, alpha_1 |-> 1, alpha_2 |-> 0],
      [mu |-> 1, lam |-> 1, alpha_1 |-> 0, alpha_2 |-> 1],
      [mu |-> 1, lam |-> 2, alpha_1 |-> 0, alpha_2 |-> 1] }

n_customers == Cardinality(DOMAIN customers) - 1

\* exact square root; the coordinates above only produce perfect squares
ISqrt(n) == CHOOSE r \in 0..n : r * r = n

calculate_distances(cs) ==
    [i \in DOMAIN cs |-> [j \in DOMAIN cs |->
        ISqrt((cs[i].x_coord - cs[j].x_coord) * (cs[i].x_coord - cs[j].x_coord)
              + (cs[i].y_coord - cs[j].y_coord) * (cs[i].y_coord - cs[j].y_coord))]]

\* every caller passes the distance matrix as the time matrix
t == d

(***************************************************************************)
(* Feasibility oracle.                                                     *)
(***************************************************************************)
\* the body of the for loop of begin_time from position i on, time being the
\* clock before the leg to rt[i]; the else branch runs when the loop ends
RECURSIVE begin_time_loop(_, _, _, _)
begin_time_loop(j, rt, i, time) ==
    IF i > Len(rt)
    THEN time + t[rt[Len(rt)]][0]
    ELSE LET arrive == time + (IF i = 1 THEN t[0][rt[1]] ELSE t[rt[i - 1]][rt[i]])
             start == Max2(customers[rt[i]].ready_time, arrive)
         IN  IF rt[i] = j
             THEN start
             ELSE begin_time_loop(j, rt, i + 1, start + customers[rt[i]].service_time)

\* route[len(route) - 1] of an empty list is an IndexError
begin_time_call(j, rt) ==
    IF rt = <<>>
    THEN Raise("IndexError", 0)
    ELSE Return(begin_time_loop(j, rt, 1, customers[0].ready_time))

begin_time(j, rt) == begin_time_call(j, rt).value

\* the for loop of check_time_windows from position i on; "late" when a due
\* date is missed, else the clock after the last service
RECURSIVE check_time_windows_loop(_, _, _)
check_time_windows_loop(rt, i, time) ==
    IF i > Len(rt)
    THEN Return(time)
    ELSE LET arrive == time + (IF i = 1 THEN t[0][rt[1]] ELSE t[rt[i - 1]][rt[i]])
             start == Max2(customers[rt[i]].ready_time, arrive)
         IN  IF start > customers[rt[i]].due_date
             THEN Raise("late", start)
             ELSE check_time_windows_loop(rt, i + 1, start + customers[rt[i]].service_time)

\* check_time_windows without the depot due date test after the loop
check_time_windows_call_without_depot(rt) ==
    IF rt = <<>>
    THEN Raise("UnboundLocalError", FALSE)
    ELSE Return(check_time_windows_loop(rt, 1, customers[0].ready_time).raised # "late")

\* after the loop, i is the last position; it is unbound for an empty route
check_time_windows_call(rt) ==
    IF rt = <<>>
    THEN Raise("UnboundLocalError", FALSE)
    ELSE LET scan == check_time_windows_loop(rt, 1, customers[0].ready_time)
         IN  IF scan.raised = "late"
             THEN Return(FALSE)
             ELSE Return(~(scan.value + t[rt[Len(rt)]][0] > customers[0].due_date))

check_time_windows(rt) == check_time_windows_call(rt).value

RECURSIVE SumSeq(_)
SumSeq(s) == IF s = <<>> THEN 0 ELSE s[1] + SumSeq(Tail(s))

\* the sum of begin_time(-1, route) over the routes; an empty route raises
routes_time_call(rs) ==
    IF \E k \in 1..Len(rs) : begin_time_call(0 - 1, rs[k]).raised # ""
    THEN Raise("IndexError", 0)
    ELSE Return(SumSeq([k \in 1..Len(rs) |-> begin_time(0 - 1, rs[k])]))


(***************************************************************************)
(* Insertion cost evaluator and the engine's selection.                    *)
(***************************************************************************)
c11(i, u, j) == d[i][u] + d[u][j] - i1_params.mu * d[i][j]

\* c12 putting u behind j instead of in front of it
c12_behind_successor(u, j, rt) ==
    LET new_route == IF j = 0 THEN Append(rt, u) ELSE PyInsert(rt, PyIndex(rt, j) + 1, u)
    IN  begin_time(j, new_route) - begin_time(j, rt)

c12(u, j, rt) ==
    LET new_route == IF j = 0 THEN Append(rt, u) ELSE PyInsert(rt, PyIndex(rt, j), u)
    IN  begin_time(j, new_route) - begin_time(j, rt)

\* insertion writing u over the customer it should go in front of
insertion_overwriting_successor(rt, u, pair) ==
    IF pair[2] = 0 THEN Append(rt, u)
    ELSE [rt EXCEPT ![PyIndex(rt, pair[2])] = u]

\* insertion without the branch that appends u before the closing depot
insertion_without_append(rt, u, pair) ==
    IF pair[1] = 0 THEN PyInsert(rt, 1, u)
    ELSE IF pair[2] = 0 THEN rt
    ELSE PyInsert(rt, PyIndex(rt, pair[2]), u)

\* insert u after i and before j; pair = <<i, j>>, 0 standing for the depot
insertion(rt, u, pair) ==
    IF pair[1] = 0 THEN PyInsert(rt, 1, u)
    ELSE IF pair[2] = 0 THEN Append(rt, u)
    ELSE PyInsert(rt, PyIndex(rt, pair[2]), u)

\* the edges without the one from the last customer to the depot
edges_without_closing_edge(rt) ==
    List([k \in 1..Len(rt) |-> <<IF k = 1 THEN 0 ELSE rt[k - 1], rt[k]>>])

\* zip([0] + route, route + [0])
edges(rt) == List([k \in 1..(Len(rt) + 1) |->
                <<IF k = 1 THEN 0 ELSE rt[k - 1], IF k = Len(rt) + 1 THEN 0 ELSE rt[k]>>])

\* feasible_insertion_places testing the route as it is, u not yet in it
feasible_insertion_places_testing_old_route(rt, u) ==
    LET feasible(pair) == check_time_windows(rt)
        kept == SelectSeq(edges(rt), feasible)
    IN  List([m \in 1..Len(kept) |->
            [u |-> u, pair |-> kept[m],
             c1 |-> i1_params.alpha_1 * c11(kept[m][1], u, kept[m][2])
                    + i1_params.alpha_2 * c12(u, kept[m][2], rt)]])

\* the edges of the route where u may be inserted, each with its c1
feasible_insertion_places(rt, u) ==
    LET feasible(pair) == check_time_windows(insertion(rt, u, pair))
        kept == SelectSeq(edges(rt), feasible)
    IN  List([k \in 1..Len(kept) |->
            [u |-> u, pair |-> kept[k],
             c1 |-> i1_params.alpha_1 * c11(kept[k][1], u, kept[k][2])
                    + i1_params.alpha_2 * c12(u, kept[k][2], rt)]])

\* the capacity check on the running load alone, the demand of u not added
capacity_check_without_demand(ld, u) == ~(ld > capacity)

\* the capacity check of the engine on the running load
capacity_check(ld, u) == ~(ld + customers[u].demand > capacity)

\* one pass of the for loop over the pool: the best place of every customer
\* that passes the capacity check and has a feasible place, with its c2
insertion_candidates(rt, pool, ld) ==
    LET eligible(u) == capacity_check(ld, u) /\ feasible_insertion_places(rt, u) # <<>>
        kept == SelectSeq(pool, eligible)
        best_place(u) == LET places == feasible_insertion_places(rt, u)
                         IN  PyMin(places, [place \in Range(places) |-> place.c1])
    IN  List([k \in 1..Len(kept) |->
            [u |-> kept[k], pair |-> best_place(kept[k]).pair,
             c2 |-> i1_params.lam * d[0][kept[k]] - best_place(kept[k]).c1]])

\* the candidate of minimal c2 taken instead of the one of maximal c2
best_candidate_of_minimal_c2(cands) == PyMin(cands, [cand \in Range(cands) |-> cand.c2])

\* max(insertion_candidates, key=c2)
best_candidate(cands) == PyMax(cands, [cand \in Range(cands) |-> cand.c2])

\* the seed of a route, taken from a non-empty pool
seed_customer(pool) ==
    IF init_criterium = 0
    THEN PyMax(pool, [customer \in Range(pool) |-> d[0][customer]])
    ELSE PyMin(pool, [i \in Range(pool) |-> customers[i].due_date])

\* the load the engine starts a route with
initial_load(seed) == 0

route_demand(rt) == SumSeq([k \in 1..Len(rt) |-> customers[rt[k]].demand])


(***************************************************************************)
(* Sweep front-end: angles, sectors, bisection.                            *)
(***************************************************************************)
\* math.atan2 in units of 1/10000 radian, for points on the axes
atan2(y, x) ==
    IF y = 0 THEN (IF x < 0 THEN 31416 ELSE 0)
    ELSE IF y > 0 THEN 15708 ELSE 0 - 15708

\* customer_angles leaving the negative angles of atan2 as they are
customer_angles_without_normalisation(cs) ==
    [i \in (DOMAIN cs) \ {0} |->
        atan2(cs[i].y_coord - cs[0].y_coord, cs[i].x_coord - cs[0].x_coord)]

\* customer_angles: the angle of every customer, normalised with 2*3.1415
customer_angles(cs) ==
    [i \in (DOMAIN cs) \ {0} |->
        LET angle == atan2(cs[i].y_coord - cs[0].y_coord, cs[i].x_coord - cs[0].x_coord)
        IN  IF angle < 0 THEN angle + 2 * 31415 ELSE angle]

\* the customers 1..n in index order
index_order(cs) == List([k \in 1..(Cardinality(DOMAIN cs) - 1) |-> k])

\* calculate_angles: [1] the indices sorted by angle, [2] the angles
calculate_angles(cs) ==
    <<PySorted(index_order(cs), customer_angles(cs)), customer_angles(cs)>>

\* bissect with the reference customer left out of the list it returns
bissect_without_reference(unrouted, angles) ==
    LET member(idx) == idx \in Range(unrouted)
        filtered == SelectSeq(index_order(customers), member)
        reference_idx == PyMin(filtered, angles)
        distance == [idx \in DOMAIN angles |-> Abs(angles[idx] - angles[reference_idx])]
        others(idx) == idx # reference_idx
    IN  PySorted(SelectSeq(filtered, others), distance)

\* bissect measuring the angle distances from the first customer of the
\* filtered list instead of the customer of smallest angle
bissect_from_first_customer(unrouted, angles) ==
    LET member(idx) == idx \in Range(unrouted)
        filtered == SelectSeq(index_order(customers), member)
        reference_idx == filtered[1]
        distance == [idx \in DOMAIN angles |-> Abs(angles[idx] - angles[reference_idx])]
    IN  PySorted(filtered, distance)

bissect(unrouted, angles) ==
    LET member(idx) == idx \in Range(unrouted)
        filtered == SelectSeq(index_order(customers), member)
        reference_idx == PyMin(filtered, angles)
        distance == [idx \in DOMAIN angles |-> Abs(angles[idx] - angles[reference_idx])]
    IN  PySorted(filtered, distance)

\* the packing loop opening a new sector as soon as the load reaches the
\* capacity
RECURSIVE pack_loop_opening_at_capacity(_, _, _, _)
pack_loop_opening_at_capacity(order, k, cls, ld) ==
    IF k > Len(order) THEN cls
    ELSE LET i == order[k]
         IN  IF ld + customers[i].demand < capacity
             THEN pack_loop_opening_at_capacity(order, k + 1,
                            [cls EXCEPT ![Len(cls)] = Append(@, i)],
                            ld + customers[i].demand)
             ELSE pack_loop_opening_at_capacity(order, k + 1, Append(cls, <<i>>),
                                                customers[i].demand)

\* the packing loop: customers from position k on, sectors built so far, load
RECURSIVE pack_loop(_, _, _, _)
pack_loop(order, k, cls, ld) ==
    IF k > Len(order) THEN cls
    ELSE LET i == order[k]
         IN  IF ld + customers[i].demand <= capacity
             THEN pack_loop(order, k + 1,
                            [cls EXCEPT ![Len(cls)] = Append(@, i)],
                            ld + customers[i].demand)
             ELSE pack_loop(order, k + 1, Append(cls, <<i>>), customers[i].demand)

\* clusters = [[]]; load = 0; for i in unrouted_customers: ...
pack(order) == pack_loop(order, 1, << <<>> >>, 0)

(***************************************************************************)
(* insertion_heuristic: the plain sequential front-end.                    *)
(***************************************************************************)
sweep_idle == UNCHANGED <<clusters, ci, sweep_unrouted, round>>

oracle_idle == UNCHANGED <<probe_route, probe_target, probe_u, ret>>

kmeans_idle == UNCHANGED <<kmeans_k, centroid_customers, kmeans_unrouted>>

IH_Seed ==
    /\ entry = "insertion_heuristic" /\ pc = "ih_while"
    /\ Len(unrouted_customers) > 0
    /\ LET seed == seed_customer(unrouted_customers)
       IN  /\ route' = <<seed>>
           /\ unrouted_customers' = PyRemove(unrouted_customers, seed)
           /\ load' = initial_load(seed)
    /\ pc' = "ih_grow"
    /\ UNCHANGED <<inputs, entry, raised, cluster, routes, stdout>>
    /\ sweep_idle /\ oracle_idle /\ kmeans_idle

IH_Insert ==
    /\ entry = "insertion_heuristic" /\ pc = "ih_grow"
    /\ LET cands == insertion_candidates(route, unrouted_customers, load)
       IN  /\ cands # <<>>
           /\ LET best == best_candidate(cands)
              IN  /\ route' = insertion(route, best.u, best.pair)
                  /\ unrouted_customers' = PyRemove(unrouted_customers, best.u)
                  /\ load' = load + customers[best.u].demand
    /\ UNCHANGED <<inputs, entry, pc, raised, cluster, routes, stdout>>
    /\ sweep_idle /\ oracle_idle /\ kmeans_idle

\* routes.append(route) without the vehicle_number test
IH_Append_without_cap ==
    /\ entry = "insertion_heuristic" /\ pc = "ih_grow"
    /\ insertion_candidates(route, unrouted_customers, load) = <<>>
    /\ routes' = Append(routes, route)
    /\ pc' = "ih_while"
    /\ UNCHANGED <<inputs, entry, raised, cluster, route, unrouted_customers, load, stdout>>
    /\ sweep_idle /\ oracle_idle /\ kmeans_idle

\* routes.append(route) and the vehicle_number test that follows it
IH_Append ==
    /\ entry = "insertion_heuristic" /\ pc = "ih_grow"
    /\ insertion_candidates(route, unrouted_customers, load) = <<>>
    /\ routes' = Append(routes, route)
    /\ IF Len(routes') = vehicle_number
       THEN /\ stdout' = Append(stdout, Len(unrouted_customers))
            /\ pc' = "done"
       ELSE /\ stdout' = stdout
            /\ pc' = "ih_while"
    /\ UNCHANGED <<inputs, entry, raised, cluster, route, unrouted_customers, load>>
    /\ sweep_idle /\ oracle_idle /\ kmeans_idle

IH_Return ==
    /\ entry = "insertion_heuristic" /\ pc = "ih_while"
    /\ Len(unrouted_customers) = 0
    /\ pc' = "done"
    /\ UNCHANGED <<inputs, entry, raised, cluster, route, unrouted_customers, load,
                   routes, stdout>>
    /\ sweep_idle /\ oracle_idle /\ kmeans_idle

(***************************************************************************)
(* insertion_heuristic_st: the single-route engine.                        *)
(***************************************************************************)
\* the state at the start of a call on pool cl (lines 50-52)
st_call(cl) ==
    /\ cluster' = cl
    /\ route' = <<>>
    /\ unrouted_customers' = cl
    /\ load' = 0
    /\ pc' = "st_init"

\* max() / min() of an empty pool
ST_SeedEmpty ==
    /\ pc = "st_init"
    /\ unrouted_customers = <<>>
    /\ raised' = "ValueError"
    /\ pc' = "raised"
    /\ UNCHANGED <<inputs, entry, cluster, route, unrouted_customers, load,
                   routes, stdout>>
    /\ sweep_idle /\ oracle_idle /\ kmeans_idle

ST_Seed ==
    /\ pc = "st_init"
    /\ unrouted_customers # <<>>
    /\ LET seed == seed_customer(unrouted_customers)
       IN  /\ route' = <<seed>>
           /\ unrouted_customers' = PyRemove(unrouted_customers, seed)
    /\ pc' = "st_loop"
    /\ UNCHANGED <<inputs, entry, raised, cluster, load, routes, stdout>>
    /\ sweep_idle /\ oracle_idle /\ kmeans_idle

ST_Insert ==
    /\ pc = "st_loop"
    /\ LET cands == insertion_candidates(route, unrouted_customers, load)
       IN  /\ cands # <<>>
           /\ LET best == best_candidate(cands)
              IN  /\ route' = insertion(route, best.u, best.pair)
                  /\ unrouted_customers' = PyRemove(unrouted_customers, best.u)
                  /\ load' = load + customers[best.u].demand
    /\ UNCHANGED <<inputs, entry, pc, raised, cluster, routes, stdout>>
    /\ sweep_idle /\ oracle_idle /\ kmeans_idle

\* return route, unrouted_customers
ST_Return ==
    /\ pc = "st_loop"
    /\ insertion_candidates(route, unrouted_customers, load) = <<>>
    /\ pc' = "st_returned"
    /\ UNCHANGED <<inputs, entry, raised, cluster, route, unrouted_customers, load,
                   routes, stdout>>
    /\ sweep_idle /\ oracle_idle /\ kmeans_idle

(***************************************************************************)
(* sweep_heuristic.                                                        *)
(***************************************************************************)
\* lines 124-143: angles, phase-1 sectors, the call on the first sector
SW_Phase1 ==
    /\ entry = "sweep_heuristic" /\ pc = "sw_start"
    /\ LET cls == pack(calculate_angles(customers)[1])
       IN  /\ clusters' = cls
           /\ st_call(cls[1])
    /\ ci' = 1
    /\ round' = 1
    /\ sweep_unrouted' = <<>>
    /\ UNCHANGED <<inputs, entry, raised, routes, stdout>>
    /\ oracle_idle /\ kmeans_idle

\* SW_Collect putting the whole sector back among the unrouted customers
SW_Collect_keeping_sector ==
    /\ entry = "sweep_heuristic" /\ pc = "st_returned"
    /\ routes' = Append(routes, route)
    /\ sweep_unrouted' = sweep_unrouted \o cluster
    /\ IF ci < Len(clusters)
       THEN /\ ci' = ci + 1
            /\ st_call(clusters[ci + 1])
       ELSE /\ ci' = ci
            /\ pc' = "sw_while"
            /\ UNCHANGED <<cluster, route, unrouted_customers, load>>
    /\ UNCHANGED <<inputs, entry, raised, stdout, clusters, round>>
    /\ oracle_idle /\ kmeans_idle

\* the body of "for cluster in clusters" after the engine returned, and the
\* call on the next sector if there is one
SW_Collect ==
    /\ entry = "sweep_heuristic" /\ pc = "st_returned"
    /\ routes' = Append(routes, route)
    /\ sweep_unrouted' = sweep_unrouted \o unrouted_customers
    /\ IF ci < Len(clusters)
       THEN /\ ci' = ci + 1
            /\ st_call(clusters[ci + 1])
       ELSE /\ ci' = ci
            /\ pc' = "sw_while"
            /\ UNCHANGED <<cluster, route, unrouted_customers, load>>
    /\ UNCHANGED <<inputs, entry, raised, stdout, clusters, round>>
    /\ oracle_idle /\ kmeans_idle

\* lines 148-163: one more round on the leftovers
SW_Phase2 ==
    /\ entry = "sweep_heuristic" /\ pc = "sw_while"
    /\ Len(sweep_unrouted) > 0
    /\ LET cls == pack(bissect(sweep_unrouted, calculate_angles(customers)[2]))
       IN  /\ clusters' = cls
           /\ st_call(cls[1])
    /\ ci' = 1
    /\ round' = round + 1
    /\ sweep_unrouted' = <<>>
    /\ UNCHANGED <<inputs, entry, raised, routes, stdout>>
    /\ oracle_idle /\ kmeans_idle

SW_Return ==
    /\ entry = "sweep_heuristic" /\ pc = "sw_while"
    /\ Len(sweep_unrouted) = 0
    /\ pc' = "done"
    /\ UNCHANGED <<inputs, entry, raised, cluster, route, unrouted_customers, load,
                   routes, stdout, clusters, ci, sweep_unrouted, round>>
    /\ oracle_idle /\ kmeans_idle

(***************************************************************************)
(* The three entry points on every instance.                               *)
(***************************************************************************)
\* the pools insertion_heuristic_st is called on: no customer, or all the
\* customers of the instance in index order (the engine reads no customer
\* outside its pool, and the instances include every smaller one)
Pools(n) == {<<>>, [k \in 1..n |-> k]}

Init ==
    /\ customers \in Instances
    /\ capacity \in 0..MaxCapacity
    /\ i1_params \in ParamSets
    /\ init_criterium \in {0, 1}
    /\ d = calculate_distances(customers)
    /\ max_iter = 0
    /\ to_params = <<>>
    /\ entry \in {"insertion_heuristic", "insertion_heuristic_st", "sweep_heuristic"}
    /\ vehicle_number \in (IF entry = "insertion_heuristic" THEN 1..MaxVehicles ELSE {1})
    /\ cluster \in (IF entry = "insertion_heuristic_st" THEN Pools(n_customers) ELSE {<<>>})
    /\ pc = CASE entry = "insertion_heuristic" -> "ih_while"
              [] entry = "insertion_heuristic_st" -> "st_init"
              [] entry = "sweep_heuristic" -> "sw_start"
    /\ raised = ""
    /\ route = <<>>
    /\ unrouted_customers = (IF entry = "insertion_heuristic" THEN index_order(customers)
                             ELSE cluster)
    /\ load = 0
    /\ routes = <<>>
    /\ stdout = <<>>
    /\ clusters = << <<>> >>
    /\ ci = 1
    /\ sweep_unrouted = <<>>
    /\ round = 0
    /\ probe_route = <<>>
    /\ probe_target = 0
    /\ probe_u = 0
    /\ ret = <<>>
    /\ kmeans_k = 0
    /\ centroid_customers = <<>>
    /\ kmeans_unrouted = <<>>

Next ==
    \/ IH_Seed \/ IH_Insert \/ IH_Append \/ IH_Return
    \/ ST_SeedEmpty \/ ST_Seed \/ ST_Insert \/ ST_Return
    \/ SW_Phase1 \/ SW_Collect \/ SW_Phase2 \/ SW_Return

Spec == Init /\ [][Next]_vars


(***************************************************************************)
(* The oracle on its own: begin_time, check_time_windows and routes_time   *)
(* called on every route of distinct customers of an instance.             *)
(***************************************************************************)
\* the sequences of distinct customers taken from S, the empty one included
RECURSIVE Arrangements(_)
Arrangements(S) ==
    {<<>>} \cup UNION { { <<c>> \o rest : rest \in Arrangements(S \ {c}) } : c \in S }

Reverse(s) == [k \in 1..Len(s) |-> s[Len(s) + 1 - k]]

InitOracle ==
    /\ customers \in Instances
    /\ capacity = 0
    /\ vehicle_number = 1
    /\ i1_params \in {p \in ParamSets : p.lam = 1 /\ p.alpha_1 = 1}
    /\ init_criterium = 0
    /\ d = calculate_distances(customers)
    /\ max_iter = 0
    /\ to_params = <<>>
    /\ entry = "oracle"
    /\ pc = "or_start"
    /\ raised = ""
    /\ cluster = <<>>
    /\ route = <<>>
    /\ unrouted_customers = <<>>
    /\ load = 0
    /\ probe_route \in Arrangements(1..n_customers)
    /\ probe_target \in {0 - 1} \cup Range(probe_route)
    /\ routes \in {<<>>, <<probe_route>>, <<probe_route, Reverse(probe_route)>>}
    /\ stdout = <<>>
    /\ clusters = << <<>> >>
    /\ ci = 1
    /\ sweep_unrouted = <<>>
    /\ round = 0
    /\ probe_u = 0
    /\ ret = <<>>
    /\ kmeans_k = 0
    /\ centroid_customers = <<>>
    /\ kmeans_unrouted = <<>>

engine_idle == UNCHANGED <<inputs, entry, raised, cluster, route, unrouted_customers,
                           load, routes, stdout>>

OR_begin_time ==
    /\ entry = "oracle" /\ pc = "or_start"
    /\ ret' = [begin_time |-> begin_time_call(probe_target, probe_route)]
    /\ pc' = "or_begin_time"
    /\ UNCHANGED <<probe_route, probe_target, probe_u>>
    /\ engine_idle /\ sweep_idle /\ kmeans_idle

OR_check_time_windows ==
    /\ entry = "oracle" /\ pc = "or_begin_time"
    /\ ret' = [begin_time |-> ret.begin_time,
               check_time_windows |-> check_time_windows_call(probe_route)]
    /\ pc' = "or_check_time_windows"
    /\ UNCHANGED <<probe_route, probe_target, probe_u>>
    /\ engine_idle /\ sweep_idle /\ kmeans_idle

OR_routes_time ==
    /\ entry = "oracle" /\ pc = "or_check_time_windows"
    /\ ret' = [begin_time |-> ret.begin_time,
               check_time_windows |-> ret.check_time_windows,
               routes_time |-> routes_time_call(routes)]
    /\ pc' = "done"
    /\ UNCHANGED <<probe_route, probe_target, probe_u>>
    /\ engine_idle /\ sweep_idle /\ kmeans_idle

NextOracle == OR_begin_time \/ OR_check_time_windows \/ OR_routes_time

SpecOracle == InitOracle /\ [][NextOracle]_vars


(***************************************************************************)
(* What the calls return.                                                  *)
(***************************************************************************)
\* insertion_heuristic_st: return route, unrouted_customers
engine_returned == pc = "st_returned"

\* the customers of 1..n that appear in some route of rs
routed(rs) == UNION {Range(rs[k]) : k \in 1..Len(rs)}

\* how often customer c appears in the routes rs
occurrences(rs, c) ==
    SumSeq([k \in 1..Len(rs) |-> Cardinality({m \in 1..Len(rs[k]) : rs[k][m] = c})])

\* the due date of c is earlier than the earliest arrival from the depot
unreachable(c) == customers[c].due_date < customers[0].ready_time + t[0][c]

(***************************************************************************)
(* C1: every route the insertion engine returns has total demand, seed     *)
(* included, at most problem.capacity.  Stated for the pools whose         *)
(* customers each fit the vehicle alone, so that a violation is a route of *)
(* several customers that together exceed the capacity.                    *)
(***************************************************************************)
each_fits(pool) == \A c \in Range(pool) : customers[c].demand <= capacity

C1_ReturnedRouteWithinCapacity ==
    /\ (engine_returned /\ each_fits(cluster)) => route_demand(route) <= capacity
    /\ (entry = "insertion_heuristic" /\ pc = "done" /\ each_fits(index_order(customers))) =>
           \A k \in 1..Len(routes) : route_demand(routes[k]) <= capacity

(***************************************************************************)
(* C2: every route the insertion engine returns, a seed-only route         *)
(* included, passes check_time_windows.                                    *)
(***************************************************************************)
C2_ReturnedRoutePassesTimeWindows ==
    /\ engine_returned => check_time_windows(route)
    /\ (entry = "insertion_heuristic" /\ pc = "done") =>
           \A k \in 1..Len(routes) : check_time_windows(routes[k])

(***************************************************************************)
(* C3: a customer whose due date is earlier than its earliest arrival from *)
(* the depot is in no returned route, and is in the leftover list when     *)
(* insertion_heuristic_st returns.                                         *)
(***************************************************************************)
C3_UnreachableNeverRouted ==
    /\ engine_returned =>
           \A c \in Range(cluster) :
               unreachable(c) => c \notin Range(route) /\ c \in Range(unrouted_customers)
    /\ (entry = "insertion_heuristic" /\ pc = "done") =>
           \A c \in 1..n_customers : unreachable(c) => c \notin routed(routes)

(***************************************************************************)
(* C4: when sweep_heuristic returns, every customer 1..n appears in        *)
(* exactly one returned route and exactly once in it.                      *)
(***************************************************************************)
C4_SweepRoutesEveryCustomerOnce ==
    (entry = "sweep_heuristic" /\ pc = "done") =>
        \A c \in 1..n_customers : occurrences(routes, c) = 1

\* sweep_heuristic returned after at least one bisection round that had
\* several leftovers to re-sort
C4_Witness ==
    /\ entry = "sweep_heuristic" /\ pc = "done"
    /\ round >= 2
    /\ n_customers = NumCust
    /\ Len(routes) < n_customers

(***************************************************************************)
(* C5: when insertion_heuristic stops at vehicle_number routes with        *)
(* customers still unrouted, the value it returns reports them.            *)
(***************************************************************************)
\* line 164: the only value returned is the list of routes
insertion_heuristic_result == routes

C5_CapStopReportsUnrouted ==
    (entry = "insertion_heuristic" /\ pc = "done" /\ Len(routes) = vehicle_number) =>
        \A c \in Range(unrouted_customers) : c \in routed(insertion_heuristic_result)


(***************************************************************************)
(* C6: after insertion_heuristic_st returns (route, leftover) for a pool   *)
(* of distinct customers, len(route) + len(leftover) == len(cluster) + 1.  *)
(***************************************************************************)
C6_RouteAndLeftoverCountPlusOne ==
    engine_returned => Len(route) + Len(unrouted_customers) = Len(cluster) + 1

\* C6 as amended: the seed is taken from the pool, so the route and the
\* leftover together are exactly as many as the pool
C6_RouteAndLeftoverCount ==
    engine_returned => Len(route) + Len(unrouted_customers) = Len(cluster)

\* the engine returned a route grown by insertions and a non-empty leftover
C6_Witness ==
    /\ engine_returned
    /\ Len(cluster) = NumCust
    /\ Len(route) >= 2
    /\ Len(unrouted_customers) >= 1

(***************************************************************************)
(* C7: insertion_heuristic_st on an empty pool returns an empty route and  *)
(* an empty leftover without raising, so sweep_heuristic completes when    *)
(* its first sector is empty.                                              *)
(***************************************************************************)
C7_EmptyPoolIsNoOp ==
    /\ (entry = "insertion_heuristic_st" /\ cluster = <<>> /\ pc # "st_init") =>
           (engine_returned /\ raised = "" /\ route = <<>> /\ unrouted_customers = <<>>)
    /\ (entry = "sweep_heuristic" /\ clusters[1] = <<>>) => raised = ""

(***************************************************************************)
(* C8: when problem.capacity is 0, or every customer of the pool has       *)
(* demand above the capacity, the engine returns the seed alone and every  *)
(* other customer of the pool as leftover.                                 *)
(***************************************************************************)
none_fits(pool) == \A c \in Range(pool) : customers[c].demand > capacity

\* the returned route is one customer of the pool and the leftover is the
\* pool without it, in pool order
seed_only(pool, rt, leftover) ==
    /\ Len(rt) = 1
    /\ rt[1] \in Range(pool)
    /\ leftover = PyRemove(pool, rt[1])

C8_SeedOnlyAtZeroCapacityOrNoneFits ==
    /\ (engine_returned /\ cluster # <<>> /\ (capacity = 0 \/ none_fits(cluster))) =>
           seed_only(cluster, route, unrouted_customers)
    /\ (entry = "insertion_heuristic" /\ pc = "done"
            /\ (capacity = 0 \/ none_fits(index_order(customers)))) =>
           \A k \in 1..Len(routes) : Len(routes[k]) = 1

\* C8 as amended: only when every customer of the pool has demand above
\* the capacity (at capacity 0: when every demand is positive)
C8_SeedOnlyWhenNoneFits ==
    /\ (engine_returned /\ cluster # <<>> /\ none_fits(cluster)) =>
           seed_only(cluster, route, unrouted_customers)
    /\ (entry = "insertion_heuristic" /\ pc = "done" /\ none_fits(index_order(customers))) =>
           \A k \in 1..Len(routes) : Len(routes[k]) = 1

\* the engine returned for a pool of several customers, none of which
\* fits, at a capacity above zero, one of them feasible next to the seed
C8_Witness ==
    /\ engine_returned
    /\ Len(cluster) >= 2
    /\ capacity > 0
    /\ none_fits(cluster)
    /\ \E c \in Range(unrouted_customers) : check_time_windows(Append(route, c))

(***************************************************************************)
(* C9: for a non-empty route of distinct customers that                    *)
(* check_time_windows accepts, begin_time of every customer of the route   *)
(* is at most its due date and begin_time(-1, route) is at most the        *)
(* depot's due date.                                                       *)
(***************************************************************************)
C9_AcceptedRouteMeetsDueDates ==
    (entry = "oracle" /\ pc \in {"or_check_time_windows", "done"}
        /\ probe_route # <<>> /\ ret.check_time_windows = Return(TRUE)) =>
        /\ ret.begin_time.raised = ""
        /\ ret.begin_time.value <=
               customers[IF probe_target = 0 - 1 THEN 0 ELSE probe_target].due_date

\* an accepted route of three customers, one of them waited for, queried
\* with the sentinel
C9_Witness ==
    /\ entry = "oracle" /\ pc = "done"
    /\ Len(probe_route) = NumCust
    /\ probe_target = 0 - 1
    /\ ret.check_time_windows = Return(TRUE)
    /\ \E k \in 2..Len(probe_route) :
           begin_time(probe_route[k], probe_route) = customers[probe_route[k]].ready_time

(***************************************************************************)
(* C10: for every route of distinct customers, the empty route included,   *)
(* begin_time(target, route) is the service start of target in the         *)
(* reference simulation when target is in the route, the total duration    *)
(* with the return leg when it is not; routes_time is the sum of the       *)
(* durations.                                                              *)
(***************************************************************************)
\* the reference simulation, by position: the service start at position k
RECURSIVE ref_service_start(_, _)
ref_service_start(rt, k) ==
    LET arrive == IF k = 1
                  THEN customers[0].ready_time + t[0][rt[1]]
                  ELSE ref_service_start(rt, k - 1) + customers[rt[k - 1]].service_time
                       + t[rt[k - 1]][rt[k]]
    IN  Max2(customers[rt[k]].ready_time, arrive)

\* the reference duration: back at the depot after the last customer
ref_duration(rt) ==
    IF rt = <<>>
    THEN customers[0].ready_time
    ELSE ref_service_start(rt, Len(rt)) + customers[rt[Len(rt)]].service_time
         + t[rt[Len(rt)]][0]

C10_BeginTimeIsReferenceSimulation ==
    (entry = "oracle" /\ pc = "done") =>
        /\ ret.begin_time =
               Return(IF probe_target \in Range(probe_route)
                      THEN ref_service_start(probe_route, PyIndex(probe_route, probe_target))
                      ELSE ref_duration(probe_route))
        /\ ret.routes_time =
               Return(SumSeq([k \in 1..Len(routes) |-> ref_duration(routes[k])]))


(***************************************************************************)
(* The insertion costs on their own: c11 and c12 called for every route of *)
(* distinct customers, every customer u outside it and every edge (i, j)   *)
(* of the route, j = 0 being the edge that ends at the depot.              *)
(***************************************************************************)
\* the i of the edge (i, j) of rt
predecessor(rt, j) ==
    IF j = 0 THEN rt[Len(rt)]
    ELSE IF PyIndex(rt, j) = 1 THEN 0 ELSE rt[PyIndex(rt, j) - 1]

InitCost ==
    /\ customers \in Instances
    /\ capacity = 0
    /\ vehicle_number = 1
    /\ i1_params \in {p \in ParamSets : p.lam = 1 /\ p.alpha_1 = 1}
    /\ init_criterium = 0
    /\ d = calculate_distances(customers)
    /\ max_iter = 0
    /\ to_params = <<>>
    /\ entry = "cost"
    /\ pc = "co_start"
    /\ raised = ""
    /\ cluster = <<>>
    /\ route = <<>>
    /\ unrouted_customers = <<>>
    /\ load = 0
    /\ routes = <<>>
    /\ stdout = <<>>
    /\ clusters = << <<>> >>
    /\ ci = 1
    /\ sweep_unrouted = <<>>
    /\ round = 0
    /\ probe_route \in Arrangements(1..n_customers) \ {<<>>}
    /\ probe_target \in {0} \cup Range(probe_route)
    /\ probe_u \in (1..n_customers) \ Range(probe_route)
    /\ ret = <<>>
    /\ kmeans_k = 0
    /\ centroid_customers = <<>>
    /\ kmeans_unrouted = <<>>

CO_c11 ==
    /\ entry = "cost" /\ pc = "co_start"
    /\ ret' = [c11 |-> c11(predecessor(probe_route, probe_target), probe_u, probe_target)]
    /\ pc' = "co_c11"
    /\ UNCHANGED <<probe_route, probe_target, probe_u>>
    /\ engine_idle /\ sweep_idle /\ kmeans_idle

CO_c12 ==
    /\ entry = "cost" /\ pc = "co_c11"
    /\ ret' = [c11 |-> ret.c11, c12 |-> c12(probe_u, probe_target, probe_route)]
    /\ pc' = "done"
    /\ UNCHANGED <<probe_route, probe_target, probe_u>>
    /\ engine_idle /\ sweep_idle /\ kmeans_idle

NextCost == CO_c11 \/ CO_c12

SpecCost == InitCost /\ [][NextCost]_vars

(***************************************************************************)
(* C11: c12(u, j, route) is the delay that putting u right in front of j   *)
(* causes to the service start of j; for j = 0, u appended and no customer *)
(* behind it, it is the delay of the return to the depot, the growth of    *)
(* the route duration.                                                     *)
(***************************************************************************)
\* by how much the customer at position pos of rt starts later with u in
\* front of it, in the reference simulation
successor_delay(rt, pos, u) ==
    ref_service_start(PyInsert(rt, pos, u), pos + 1) - ref_service_start(rt, pos)

C11_C12IsSuccessorOrDepotDelay ==
    (entry = "cost" /\ pc = "done") =>
        ret.c12 = (IF probe_target # 0
                   THEN successor_delay(probe_route, PyIndex(probe_route, probe_target),
                                        probe_u)
                   ELSE ref_duration(Append(probe_route, probe_u))
                        - ref_duration(probe_route))

\* C11 as stated: the delay of the successor, and 0 at the depot edge
C11_C12IsSuccessorDelayOrZero ==
    (entry = "cost" /\ pc = "done") =>
        ret.c12 = (IF probe_target # 0
                   THEN successor_delay(probe_route, PyIndex(probe_route, probe_target),
                                        probe_u)
                   ELSE 0)

\* u put in front of a customer that it delays, and u appended to a route
C11_Witness ==
    /\ entry = "cost" /\ pc = "done"
    /\ probe_target # 0 /\ Len(probe_route) >= 2
    /\ ret.c12 > 0
    /\ ret.c12 < c12(probe_u, 0, probe_route)


(***************************************************************************)
(* The selection rule of one engine iteration, stated on sets: the edge at *)
(* position pos of a route is the one in front of its pos-th customer, the *)
(* last position being the edge that ends at the depot.                    *)
(***************************************************************************)
engine_growing == pc \in {"ih_grow", "st_loop"}

\* the step of the engine that inserts a customer
inserting_step == engine_growing /\ route' # route

\* the step of the engine that seeds a route
seeding_step == pc \in {"ih_while", "st_init"} /\ pc' \in {"ih_grow", "st_loop"}

positions(rt) == 1..(Len(rt) + 1)

edge_at(rt, pos) == <<IF pos = 1 THEN 0 ELSE rt[pos - 1],
                      IF pos = Len(rt) + 1 THEN 0 ELSE rt[pos]>>

c1_at(rt, pos, u) ==
    i1_params.alpha_1 * c11(edge_at(rt, pos)[1], u, edge_at(rt, pos)[2])
    + i1_params.alpha_2 * c12(u, edge_at(rt, pos)[2], rt)

feasible_positions(rt, u) ==
    {pos \in positions(rt) : check_time_windows(PyInsert(rt, pos, u))}

c1_best(rt, u) ==
    CHOOSE v \in {c1_at(rt, pos, u) : pos \in feasible_positions(rt, u)} :
        \A pos \in feasible_positions(rt, u) : v <= c1_at(rt, pos, u)

c2_of(rt, u) == i1_params.lam * d[0][u] - c1_best(rt, u)

\* the pool customers that pass the capacity check of the engine and have
\* a time-feasible edge
eligible_customers(rt, pool, ld) ==
    {u \in Range(pool) : ld + customers[u].demand <= capacity
                         /\ feasible_positions(rt, u) # {}}

\* the seed criterion as a quantity to maximise
seed_merit(c) == IF init_criterium = 0 THEN d[0][c] ELSE 0 - customers[c].due_date

(***************************************************************************)
(* C12: the engine breaks ties by iteration order, so each of its steps is *)
(* a function of the inputs and the pool order: the seed is the first pool *)
(* customer of best seed criterion, the customer inserted is the first     *)
(* eligible pool customer of maximal c2, and it goes on the first          *)
(* time-feasible edge, front to back, of minimal c1.                       *)
(***************************************************************************)
first_best_seed(pool, s) ==
    /\ s \in Range(pool)
    /\ \A m \in 1..Len(pool) :
           /\ seed_merit(pool[m]) <= seed_merit(s)
           /\ m < PyIndex(pool, s) => seed_merit(pool[m]) < seed_merit(s)

first_best_candidate(rt, pool, ld, u) ==
    /\ u \in eligible_customers(rt, pool, ld)
    /\ \A m \in 1..Len(pool) :
           pool[m] \in eligible_customers(rt, pool, ld) =>
               /\ c2_of(rt, pool[m]) <= c2_of(rt, u)
               /\ m < PyIndex(pool, u) => c2_of(rt, pool[m]) < c2_of(rt, u)

first_best_position(rt, u, pos) ==
    /\ pos \in feasible_positions(rt, u)
    /\ \A q \in feasible_positions(rt, u) :
           /\ c1_at(rt, pos, u) <= c1_at(rt, q, u)
           /\ q < pos => c1_at(rt, pos, u) < c1_at(rt, q, u)

C12_FirstEncounteredTieBreaking ==
    [][ /\ seeding_step =>
            \E s \in Range(unrouted_customers) :
                /\ first_best_seed(unrouted_customers, s)
                /\ route' = <<s>>
                /\ unrouted_customers' = PyRemove(unrouted_customers, s)
        /\ inserting_step =>
            \E u \in Range(unrouted_customers) : \E pos \in positions(route) :
                /\ first_best_candidate(route, unrouted_customers, load, u)
                /\ first_best_position(route, u, pos)
                /\ route' = PyInsert(route, pos, u)
                /\ unrouted_customers' = PyRemove(unrouted_customers, u)
      ]_vars

\* insertion_heuristic_st after its first insertion, the seed and the
\* customer inserted each taken in front of a pool customer that ties with
\* it, on an edge that ties with the other edge of the seed route
C12_Witness ==
    /\ entry = "insertion_heuristic_st" /\ pc = "st_loop" /\ Len(route) = 2
    /\ LET seed == seed_customer(cluster)
           pool == PyRemove(cluster, seed)
           u == CHOOSE c \in Range(route) : c # seed
       IN  /\ seed \in Range(route)
           /\ \E c \in Range(pool) : seed_merit(c) = seed_merit(seed)
           /\ \E c \in eligible_customers(<<seed>>, pool, 0) \ {u} :
                  c2_of(<<seed>>, c) = c2_of(<<seed>>, u)
           /\ feasible_positions(<<seed>>, u) = {1, 2}
           /\ c1_at(<<seed>>, 1, u) = c1_at(<<seed>>, 2, u)


(***************************************************************************)
(* sweep_heuristic on its own, on every instance and on the instances of   *)
(* four customers of demand 1, one on each half-axis, with time windows as *)
(* wide as the depot's.                                                    *)
(***************************************************************************)
HalfAxes == {<<3, 0>>, <<0, 4>>, <<0 - 3, 0>>, <<0, 0 - 4>>}

FourAroundDepot ==
    { [c \in 0..4 |-> IF c = 0 THEN Depot
                      ELSE Customer(f[c][1], f[c][2], 1, 0, Depot.due_date, 0)]
      : f \in {g \in [1..4 -> HalfAxes] : \A a, b \in 1..4 : a # b => g[a] # g[b]} }

InitSweep ==
    /\ customers \in Instances \cup FourAroundDepot
    /\ capacity \in 0..MaxCapacity
    /\ vehicle_number = 1
    /\ i1_params \in ParamSets
    /\ init_criterium \in {0, 1}
    /\ d = calculate_distances(customers)
    /\ max_iter = 0
    /\ to_params = <<>>
    /\ entry = "sweep_heuristic"
    /\ pc = "sw_start"
    /\ raised = ""
    /\ cluster = <<>>
    /\ route = <<>>
    /\ unrouted_customers = <<>>
    /\ load = 0
    /\ routes = <<>>
    /\ stdout = <<>>
    /\ clusters = << <<>> >>
    /\ ci = 1
    /\ sweep_unrouted = <<>>
    /\ round = 0
    /\ probe_route = <<>>
    /\ probe_target = 0
    /\ probe_u = 0
    /\ ret = <<>>
    /\ kmeans_k = 0
    /\ centroid_customers = <<>>
    /\ kmeans_unrouted = <<>>

NextSweep ==
    \/ ST_SeedEmpty \/ ST_Seed \/ ST_Insert \/ ST_Return
    \/ SW_Phase1 \/ SW_Collect \/ SW_Phase2 \/ SW_Return

SpecSweep == InitSweep /\ [][NextSweep]_vars

(***************************************************************************)
(* C13: when every demand is within the capacity and every ordering of the *)
(* customers of every phase-1 sector passes check_time_windows, the sweep  *)
(* never enters its phase-2 loop body and returns one route per phase-1    *)
(* sector, made of the customers of that sector; four customers of demand  *)
(* 1 at 0, 90, 180 and 270 degrees with capacity 2 give two routes, the    *)
(* customers at 0 and 90 degrees and the customers at 180 and 270 degrees. *)
(***************************************************************************)
phase1_sectors == pack(calculate_angles(customers)[1])

\* the orderings of all the customers of a sector
orderings(sector) ==
    {arr \in Arrangements(Range(sector)) : Len(arr) = Len(sector)}

never_binds(sectors) ==
    \A s \in 1..Len(sectors) :
        \A arr \in orderings(sectors[s]) : check_time_windows_call(arr) = Return(TRUE)

at(c, x, y) == customers[c].x_coord = x /\ customers[c].y_coord = y

C13_OneRoutePerSectorWhenNothingBinds ==
    (/\ entry = "sweep_heuristic"
     /\ each_fits(index_order(customers))
     /\ never_binds(phase1_sectors)) =>
        /\ round <= 1
        /\ pc = "sw_while" => sweep_unrouted = <<>>
        /\ pc = "done" =>
               /\ Len(routes) = Len(phase1_sectors)
               /\ \A s \in 1..Len(routes) : Range(routes[s]) = Range(phase1_sectors[s])
        /\ (pc = "done" /\ customers \in FourAroundDepot /\ capacity = 2) =>
               /\ Len(routes) = 2
               /\ Len(routes[1]) = 2 /\ Len(routes[2]) = 2
               /\ \A c \in Range(routes[1]) : at(c, 3, 0) \/ at(c, 0, 4)
               /\ \A c \in Range(routes[2]) : at(c, 0 - 3, 0) \/ at(c, 0, 0 - 4)

\* the sweep returned on four customers around the depot with capacity 2
C13_Witness ==
    /\ entry = "sweep_heuristic" /\ pc = "done"
    /\ customers \in FourAroundDepot /\ capacity = 2
    /\ each_fits(index_order(customers))
    /\ never_binds(phase1_sectors)
    /\ Len(routes) = 2


(***************************************************************************)
(* C14: the engine closes a route only when no pool customer can be added: *)
(* every customer left in the pool either exceeds the capacity together    *)
(* with the demand of the route or has no time-feasible position, the two  *)
(* depot edges included; a pool whose demand fits and whose orderings all  *)
(* pass check_time_windows comes back as one route and no leftover.        *)
(***************************************************************************)
\* the engine has just closed `route`, the pool being what it left
route_closed ==
    \/ pc = "st_returned"
    \/ entry = "insertion_heuristic" /\ pc \in {"ih_while", "done"} /\ routes # <<>>

no_progress(rt, u) ==
    \/ route_demand(rt) + customers[u].demand > capacity
    \/ feasible_positions(rt, u) = {}

\* the pool the engine was called on
engine_pool == IF entry = "insertion_heuristic" THEN index_order(customers) ELSE cluster

unconstrained(pool) ==
    /\ pool # <<>>
    /\ route_demand(pool) <= capacity
    /\ never_binds(<<pool>>)

C14_StopsOnlyWhenNoProgress ==
    route_closed =>
        /\ \A u \in Range(unrouted_customers) : no_progress(route, u)
        /\ unconstrained(engine_pool) =>
               /\ unrouted_customers = <<>>
               /\ Range(route) = Range(engine_pool)
               /\ Len(route) = Len(engine_pool)
               /\ entry = "insertion_heuristic" => routes = <<route>>

\* a route of two customers closed on a customer that fits and has no
\* time-feasible position, by a call that could have routed a customer
\* more had the time windows allowed
C14_Witness ==
    /\ pc = "st_returned" /\ Len(route) >= 2
    /\ \E u \in Range(unrouted_customers) :
           /\ route_demand(route) + customers[u].demand <= capacity
           /\ feasible_positions(route, u) = {}
           /\ customers[u].due_date >= customers[0].ready_time + d[0][u]


(***************************************************************************)
(* C15: every inserting iteration of the engine inserts a customer v of    *)
(* maximal c2 = lam * d[0][v] - c1_best(v) among the pool customers that   *)
(* pass the capacity check and have a time-feasible edge, c1_best(v) being *)
(* the minimum of alpha_1 * c11 + alpha_2 * c12 over the time-feasible     *)
(* edges of v; v goes on an edge that attains its c1_best, the pool loses  *)
(* v and nothing else, and the load grows by the demand of v.              *)
(***************************************************************************)
C15_InsertsBestCandidateOnBestEdge ==
    [][ inserting_step =>
            \E u \in eligible_customers(route, unrouted_customers, load) :
                /\ \A v \in eligible_customers(route, unrouted_customers, load) :
                       c2_of(route, v) <= c2_of(route, u)
                /\ \E pos \in feasible_positions(route, u) :
                       /\ c1_at(route, pos, u) = c1_best(route, u)
                       /\ route' = PyInsert(route, pos, u)
                /\ Range(unrouted_customers') = Range(unrouted_customers) \ {u}
                /\ Len(unrouted_customers') = Len(unrouted_customers) - 1
                /\ load' = load + customers[u].demand
      ]_vars

\* insertion_heuristic_st after its first insertion, made among customers
\* of different c2 on the cheaper of two time-feasible edges, the customer
\* inserted having a positive demand
C15_Witness ==
    /\ entry = "insertion_heuristic_st" /\ pc = "st_loop" /\ Len(route) = 2
    /\ LET seed == seed_customer(cluster)
           pool == PyRemove(cluster, seed)
           u == CHOOSE c \in Range(route) : c # seed
       IN  /\ seed \in Range(route)
           /\ \E v \in eligible_customers(<<seed>>, pool, 0) :
                  c2_of(<<seed>>, v) < c2_of(<<seed>>, u)
           /\ feasible_positions(<<seed>>, u) = {1, 2}
           /\ c1_at(<<seed>>, 1, u) # c1_at(<<seed>>, 2, u)
           /\ load = customers[u].demand /\ load > 0


(***************************************************************************)
(* C16: a route only grows by insertion: a step of the engine that changes *)
(* the route under construction puts one pool customer somewhere in it and *)
(* keeps the customers it had, in their order; the routes already appended *)
(* to `routes` stay as they are, new ones coming behind them.              *)
(***************************************************************************)
is_prefix(a, b) == Len(a) <= Len(b) /\ SubSeq(b, 1, Len(a)) = a

C16_RoutesGrowByInsertionOnly ==
    [][ /\ inserting_step =>
            \E u \in Range(unrouted_customers) \ Range(route) :
                \E pos \in positions(route) : route' = PyInsert(route, pos, u)
        /\ is_prefix(routes, routes')
      ]_vars

\* insertion_heuristic after an insertion in its second route, the first
\* one closed
C16_Witness ==
    /\ entry = "insertion_heuristic" /\ pc = "ih_grow"
    /\ Len(routes) = 1 /\ routes[1] # <<>>
    /\ Len(route) >= 2
    /\ Range(route) \cap Range(routes[1]) = {}

(***************************************************************************)
(* C17: the route an insertion commits is a candidate route that passed    *)
(* check_time_windows in that iteration, so every route that has had an    *)
(* insertion, under construction or returned, passes check_time_windows    *)
(* when checked again.                                                     *)
(***************************************************************************)
C17_CommittedRoutePassedTimeWindows ==
    [][ /\ inserting_step =>
            \E u \in Range(unrouted_customers) : \E pos \in positions(route) :
                /\ check_time_windows(insertion(route, u, edge_at(route, pos)))
                /\ route' = insertion(route, u, edge_at(route, pos))
        /\ Len(route') >= 2 => check_time_windows(route')
        /\ \A m \in 1..Len(routes') :
               Len(routes'[m]) >= 2 => check_time_windows(routes'[m])
      ]_vars

\* a route of two customers or more was returned whose customers do not
\* pass check_time_windows in every order
C17_Witness ==
    /\ pc = "done" /\ entry \in {"insertion_heuristic", "sweep_heuristic"}
    /\ \E m \in 1..Len(routes) :
           /\ Len(routes[m]) >= 2
           /\ check_time_windows(routes[m])
           /\ \E arr \in orderings(routes[m]) : ~check_time_windows(arr)


(***************************************************************************)
(* C18: on an instance where every demand is within the capacity the       *)
(* sweep terminates: no sector of a round is empty, every sector gives a   *)
(* route of one customer at least, so every round ends with fewer          *)
(* unrouted customers than it started with; there are no more rounds than  *)
(* customers, and no exception ends the call.                              *)
(***************************************************************************)
\* the number of customers the sectors of the current round hold
in_sectors == SumSeq([s \in 1..Len(clusters) |-> Len(clusters[s])])

sweep_progress ==
    /\ round >= 1 => \A s \in 1..Len(clusters) : clusters[s] # <<>>
    /\ pc = "st_returned" => route # <<>>
    /\ pc = "sw_while" => Len(sweep_unrouted) < in_sectors
    /\ round <= n_customers

C18_SweepTerminates ==
    (entry = "sweep_heuristic" /\ each_fits(index_order(customers)) /\ n_customers > 0) =>
        /\ sweep_progress
        /\ pc # "raised"

\* the sweep returned after three rounds, each with fewer customers
C18_Witness ==
    /\ entry = "sweep_heuristic" /\ pc = "done"
    /\ each_fits(index_order(customers))
    /\ round >= 3


(***************************************************************************)
(* kmeans_vrptw: k-means++ centroids, Lloyd iterations, one engine call    *)
(* per non-empty cluster, again on the leftovers.  A centroid position is  *)
(* kept as the sums of the coordinates and the number of customers summed, *)
(* [x, y, n] standing for the point (x / n, y / n).                        *)
(***************************************************************************)
\* random.randint(1, 100)
randint_high == 100

\* problem.vehicle_number of the instances clustered
Fleets == {MaxVehicles, 10, 25}

\* max_iter as passed by the callers, and the values next to none
Iterations == {0, 1, 10}

square(a) == a * a

\* euc_distance(coord_i, coord_j) ** 2 between two customers
euc_distance_squared(i, j) ==
    square(customers[i].x_coord - customers[j].x_coord)
    + square(customers[i].y_coord - customers[j].y_coord)

\* euc_distance(coord_i, centroid) ** 2, times centroid.n ** 2
euc_distance_scaled(i, centroid) ==
    square(customers[i].x_coord * centroid.n - centroid.x)
    + square(customers[i].y_coord * centroid.n - centroid.y)

\* euc_distance(coord_i, a) < euc_distance(coord_i, b)
closer(i, a, b) ==
    euc_distance_scaled(i, a) * square(b.n) < euc_distance_scaled(i, b) * square(a.n)

\* lines 37-49: the points that are no centroid, each with the square of
\* its distance to the nearest centroid
centroid_candidates(centroids, points) ==
    LET candidate(i) == i \notin Range(centroids)
        kept == SelectSeq(points, candidate)
        squares(i) == {euc_distance_squared(i, centroids[m]) : m \in 1..Len(centroids)}
    IN  List([m \in 1..Len(kept) |->
            [i |-> kept[m],
             weight |-> CHOOSE w \in squares(kept[m]) : \A v \in squares(kept[m]) : w <= v]])

\* clusters = [Cluster(centroid) for centroid in centroid_positions]
Cluster(i) ==
    [centroid |-> [x |-> customers[i].x_coord, y |-> customers[i].y_coord, n |-> 1],
     customers |-> <<>>]

\* min(cluster_distances, key=...)[0]: the first cluster of nearest centroid
nearest_cluster(cls, i) ==
    CHOOSE j \in 1..Len(cls) :
        /\ \A m \in 1..Len(cls) : ~closer(i, cls[m].centroid, cls[j].centroid)
        /\ \A m \in 1..(j - 1) : closer(i, cls[j].centroid, cls[m].centroid)

\* the assignment leaving out the points that are centroids
RECURSIVE assign_customers_but_centroids(_, _, _)
assign_customers_but_centroids(cls, points, m) ==
    IF m > Len(points) THEN cls
    ELSE IF points[m] \in Range(centroid_customers)
    THEN assign_customers_but_centroids(cls, points, m + 1)
    ELSE CHOOSE r \in {assign_customers_but_centroids(c, points, m + 1) :
                         c \in {[cls EXCEPT ![nearest_cluster(cls, points[m])].customers
                                                = Append(@, points[m])]}} : TRUE

\* lines 96-104, from the m-th point on; c is the clusters after
\* clusters[j].add_customer(i), a value computed once per point
RECURSIVE assign_customers(_, _, _)
assign_customers(cls, points, m) ==
    IF m > Len(points) THEN cls
    ELSE CHOOSE r \in {assign_customers(c, points, m + 1) :
                         c \in {[cls EXCEPT ![nearest_cluster(cls, points[m])].customers
                                                = Append(@, points[m])]}} : TRUE

\* lines 107-113
recalculate_centroids(cls) ==
    List([m \in 1..Len(cls) |->
        IF cls[m].customers = <<>> THEN cls[m]
        ELSE [centroid |->
                  [x |-> SumSeq([c \in 1..Len(cls[m].customers) |->
                                     customers[cls[m].customers[c]].x_coord]),
                   y |-> SumSeq([c \in 1..Len(cls[m].customers) |->
                                     customers[cls[m].customers[c]].y_coord]),
                   n |-> Len(cls[m].customers)],
              customers |-> cls[m].customers]])

\* the body of "while iter_count < max_iter" from iteration iter_count on
RECURSIVE lloyd_iterations(_, _, _)
lloyd_iterations(cls, points, iter_count) ==
    IF iter_count >= max_iter THEN cls
    ELSE LET cleared == List([m \in 1..Len(cls) |-> [cls[m] EXCEPT !.customers = <<>>]])
         IN  CHOOSE r \in {lloyd_iterations(c, points, iter_count + 1) :
                             c \in {recalculate_centroids(assign_customers(cleared, points, 1))}} : TRUE

\* the first cluster from position m on that has customers, 0 if none
RECURSIVE next_cluster(_, _)
next_cluster(cls, m) ==
    IF m > Len(cls) THEN 0
    ELSE IF cls[m].customers # <<>> THEN m
    ELSE next_cluster(cls, m + 1)

\* the call of the single-route engine on a cluster
insertion_heuristic_sr(cl) == st_call(cl)

\* lines 78-86 and 31-32: the test of the while loop, k, and the first
\* centroid j, any of 1..randint_high; a j above the last index of
\* `customers` ends the call at the first customers[j], line 45 or line
\* 88; without an iteration `clusters` is unbound at line 119
KM_First ==
    /\ entry = "kmeans_vrptw" /\ pc = "km_while"
    /\ Len(kmeans_unrouted) > 0
    /\ kmeans_k' = (vehicle_number * Len(kmeans_unrouted)) \div ((n_customers + 1) * 5)
    /\ round' = round + 1
    /\ IF max_iter = 0
       THEN /\ raised' = "UnboundLocalError" /\ pc' = "raised"
            /\ UNCHANGED centroid_customers
       ELSE \/ \E j \in 1..randint_high :
                 /\ j <= n_customers
                 /\ centroid_customers' = <<j>>
                 /\ pc' = "km_init"
                 /\ UNCHANGED raised
            \/ /\ randint_high > n_customers
               /\ raised' = "IndexError" /\ pc' = "raised"
               /\ UNCHANGED centroid_customers
    /\ UNCHANGED <<inputs, entry, cluster, route, unrouted_customers, load, routes,
                   stdout, clusters, ci, sweep_unrouted, kmeans_unrouted>>
    /\ oracle_idle

\* lines 36-59: one more centroid, drawn among the candidates of positive
\* weight; random.choices of no candidate is an IndexError, and weights
\* that are all 0 divide by 0
KM_Next ==
    /\ entry = "kmeans_vrptw" /\ pc = "km_init"
    /\ Len(centroid_customers) < kmeans_k
    /\ LET candidates == centroid_candidates(centroid_customers, kmeans_unrouted)
           total_distance == SumSeq([m \in 1..Len(candidates) |-> candidates[m].weight])
       IN  IF candidates = <<>>
           THEN /\ raised' = "IndexError" /\ pc' = "raised"
                /\ UNCHANGED centroid_customers
           ELSE IF total_distance = 0
           THEN /\ raised' = "ZeroDivisionError" /\ pc' = "raised"
                /\ UNCHANGED centroid_customers
           ELSE \E m \in 1..Len(candidates) :
                    /\ candidates[m].weight > 0
                    /\ centroid_customers' = Append(centroid_customers, candidates[m].i)
                    /\ UNCHANGED <<pc, raised>>
    /\ UNCHANGED <<inputs, entry, cluster, route, unrouted_customers, load, routes,
                   stdout, clusters, ci, sweep_unrouted, round, kmeans_k, kmeans_unrouted>>
    /\ oracle_idle

\* lines 61 and 82-115: kmeanspp_initialization returns and the Lloyd
\* iterations run
KM_Lloyd ==
    /\ entry = "kmeans_vrptw" /\ pc = "km_init"
    /\ Len(centroid_customers) >= kmeans_k
    /\ clusters' = lloyd_iterations(
                       List([m \in 1..Len(centroid_customers) |->
                                Cluster(centroid_customers[m])]),
                       kmeans_unrouted, 0)
    /\ pc' = "km_clustered"
    /\ UNCHANGED <<inputs, entry, raised, cluster, route, unrouted_customers, load,
                   routes, stdout, ci, sweep_unrouted, round>>
    /\ oracle_idle /\ kmeans_idle

\* lines 118-123: the pool emptied and the engine called on the first
\* cluster that has customers
KM_Build ==
    /\ entry = "kmeans_vrptw" /\ pc = "km_clustered"
    /\ kmeans_unrouted' = <<>>
    /\ IF next_cluster(clusters, 1) = 0
       THEN /\ pc' = "km_while"
            /\ UNCHANGED <<cluster, route, unrouted_customers, load, ci>>
       ELSE /\ ci' = next_cluster(clusters, 1)
            /\ insertion_heuristic_sr(clusters[next_cluster(clusters, 1)].customers)
    /\ UNCHANGED <<inputs, entry, raised, routes, stdout, clusters, sweep_unrouted,
                   round, kmeans_k, centroid_customers>>
    /\ oracle_idle

\* lines 124-125 after the engine returned, and the call on the next
\* cluster that has customers
KM_Collect ==
    /\ entry = "kmeans_vrptw" /\ pc = "st_returned"
    /\ routes' = Append(routes, route)
    /\ kmeans_unrouted' = kmeans_unrouted \o unrouted_customers
    /\ IF next_cluster(clusters, ci + 1) = 0
       THEN /\ pc' = "km_while"
            /\ UNCHANGED <<cluster, route, unrouted_customers, load, ci>>
       ELSE /\ ci' = next_cluster(clusters, ci + 1)
            /\ insertion_heuristic_sr(clusters[next_cluster(clusters, ci + 1)].customers)
    /\ UNCHANGED <<inputs, entry, raised, stdout, clusters, sweep_unrouted, round,
                   kmeans_k, centroid_customers>>
    /\ oracle_idle

KM_Return ==
    /\ entry = "kmeans_vrptw" /\ pc = "km_while"
    /\ Len(kmeans_unrouted) = 0
    /\ pc' = "done"
    /\ UNCHANGED <<inputs, entry, raised, cluster, route, unrouted_customers, load,
                   routes, stdout, clusters, ci, sweep_unrouted, round>>
    /\ oracle_idle /\ kmeans_idle

InitKmeans ==
    /\ customers \in Instances
    /\ capacity \in {0, MaxCapacity}
    /\ vehicle_number \in Fleets
    /\ i1_params \in {p \in ParamSets : p.lam = 1 /\ p.alpha_1 = 1}
    /\ init_criterium = 0
    /\ d = calculate_distances(customers)
    /\ max_iter \in Iterations
    /\ to_params = <<>>
    /\ entry = "kmeans_vrptw"
    /\ pc = "km_while"
    /\ raised = ""
    /\ cluster = <<>>
    /\ route = <<>>
    /\ unrouted_customers = <<>>
    /\ load = 0
    /\ routes = <<>>
    /\ stdout = <<>>
    /\ clusters = <<>>
    /\ ci = 1
    /\ sweep_unrouted = <<>>
    /\ round = 0
    /\ probe_route = <<>>
    /\ probe_target = 0
    /\ probe_u = 0
    /\ ret = <<>>
    /\ kmeans_k = 0
    /\ centroid_customers = <<>>
    /\ kmeans_unrouted = index_order(customers)

NextKmeans ==
    \/ KM_First \/ KM_Next \/ KM_Lloyd \/ KM_Build \/ KM_Collect \/ KM_Return
    \/ ST_Seed \/ ST_Insert \/ ST_Return

SpecKmeans == InitKmeans /\ [][NextKmeans]_vars

(***************************************************************************)
(* C19: in every round of kmeans_vrptw with max_iter >= 1 whose            *)
(* initialization returns, there is a cluster, also when k is 0; after the *)
(* last Lloyd iteration every customer of the unrouted pool is in exactly  *)
(* one cluster, once, and the clusters hold nothing else; every pool the   *)
(* engine is called on has customers, and every round ends with a route    *)
(* more at least.                                                          *)
(***************************************************************************)
\* how often customer c is in the clusters
memberships(cls, c) ==
    SumSeq([m \in 1..Len(cls) |->
               Cardinality({p \in 1..Len(cls[m].customers) : cls[m].customers[p] = c})])

C19_ClustersPartitionThePool ==
    (entry = "kmeans_vrptw" /\ max_iter >= 1) =>
        /\ pc = "km_clustered" =>
               /\ Len(clusters) >= 1
               /\ \A c \in Range(kmeans_unrouted) : memberships(clusters, c) = 1
               /\ \A m \in 1..Len(clusters) :
                      Range(clusters[m].customers) \subseteq Range(kmeans_unrouted)
               /\ next_cluster(clusters, 1) # 0
        /\ pc = "st_init" => cluster # <<>>
        /\ pc = "km_while" => Len(routes) >= round

\* a round of the second kind: one cluster for a pool of two customers or
\* more although k is 0
C19_Witness ==
    /\ entry = "kmeans_vrptw" /\ max_iter >= 1 /\ pc = "km_clustered"
    /\ kmeans_k = 0 /\ Len(clusters) = 1
    /\ round >= 2 /\ Len(kmeans_unrouted) >= 2

(***************************************************************************)
(* C20: every centroid that kmeanspp_initialization returns, the first one *)
(* included, is one of the points it was given, the customers not yet      *)
(* routed, and an index of `customers`, and no centroid is returned twice; *)
(* no draw gives an index that `customers` does not have.                  *)
(***************************************************************************)
kmeanspp_returned ==
    /\ entry = "kmeans_vrptw"
    /\ pc = "km_clustered" \/ (pc = "km_init" /\ Len(centroid_customers) >= kmeans_k)

C20_CentroidsAreDistinctPoints ==
    /\ kmeanspp_returned =>
           /\ \A m \in 1..Len(centroid_customers) :
                  /\ centroid_customers[m] \in Range(kmeans_unrouted)
                  /\ centroid_customers[m] \in 1..n_customers
           /\ \A m, p \in 1..Len(centroid_customers) :
                  m # p => centroid_customers[m] # centroid_customers[p]
    /\ (entry = "kmeans_vrptw" /\ pc = "raised" /\ kmeans_k <= 1) => raised # "IndexError"

(***************************************************************************)
(* C21: the sectors the packing loop builds, in phase 1 and in every       *)
(* round of phase 2, are consecutive runs of the angle-ordered list of the *)
(* customers to route and their concatenation is that list; a customer     *)
(* opens a new sector exactly when adding it to the current sector would   *)
(* exceed the capacity.  With one customer at least and every demand       *)
(* within the capacity, every sector is non-empty and within the capacity, *)
(* and so is every route of the sweep.                                     *)
(***************************************************************************)
RECURSIVE concatenation(_)
concatenation(cls) ==
    IF cls = <<>> THEN <<>> ELSE cls[1] \o concatenation(Tail(cls))

\* cls are the sectors of the list order
packed(order, cls) ==
    /\ Len(cls) >= 1
    /\ concatenation(cls) = order
    /\ \A m \in 2..Len(cls) : cls[m] # <<>>
    /\ \A m \in 1..Len(cls) : \A p \in 1..Len(cls[m]) :
           LET demand == customers[cls[m][p]].demand
           IN  IF p = 1 /\ m > 1
               THEN route_demand(cls[m - 1]) + demand > capacity
               ELSE route_demand(SubSeq(cls[m], 1, p - 1)) + demand <= capacity

within_capacity(lists) ==
    \A m \in 1..Len(lists) : lists[m] # <<>> /\ route_demand(lists[m]) <= capacity

C21_SectorsAreCapacityBoundedRuns ==
    [][entry = "sweep_heuristic" =>
          /\ pc = "sw_start" => packed(calculate_angles(customers)[1], clusters')
          /\ (pc = "sw_while" /\ Len(sweep_unrouted) > 0) =>
                 packed(bissect(sweep_unrouted, calculate_angles(customers)[2]), clusters')
          /\ (each_fits(index_order(customers)) /\ n_customers >= 1) =>
                 /\ within_capacity(clusters')
                 /\ within_capacity(routes')]_vars

\* phase 1 packed the customers into two sectors, the first of two customers,
\* and the first sector gave a route
C21_Witness ==
    /\ entry = "sweep_heuristic" /\ round = 1
    /\ each_fits(index_order(customers))
    /\ Len(clusters) = 2 /\ Len(clusters[1]) = 2
    /\ Len(routes) = 1

(***************************************************************************)
(* bissect on its own: called with the angles of calculate_angles and      *)
(* every non-empty list of distinct customers, in every order, of every    *)
(* instance and of the instances of four customers around the depot.       *)
(***************************************************************************)
InitBissect ==
    /\ customers \in Instances \cup FourAroundDepot
    /\ capacity = 0
    /\ vehicle_number = 1
    /\ i1_params \in {p \in ParamSets : p.lam = 1 /\ p.alpha_1 = 1}
    /\ init_criterium = 0
    /\ d = calculate_distances(customers)
    /\ max_iter = 0
    /\ to_params = <<>>
    /\ entry = "bissect"
    /\ pc = "bi_start"
    /\ raised = ""
    /\ cluster = <<>>
    /\ route = <<>>
    /\ unrouted_customers = <<>>
    /\ load = 0
    /\ routes = <<>>
    /\ stdout = <<>>
    /\ clusters = << <<>> >>
    /\ ci = 1
    /\ sweep_unrouted = <<>>
    /\ round = 0
    /\ probe_route \in Arrangements(1..n_customers) \ {<<>>}
    /\ probe_target = 0
    /\ probe_u = 0
    /\ ret = <<>>
    /\ kmeans_k = 0
    /\ centroid_customers = <<>>
    /\ kmeans_unrouted = <<>>

\* sorted_indices = bissect(unrouted, angles)
BI_bissect ==
    /\ entry = "bissect" /\ pc = "bi_start"
    /\ ret' = bissect(probe_route, calculate_angles(customers)[2])
    /\ pc' = "done"
    /\ UNCHANGED <<probe_route, probe_target, probe_u>>
    /\ engine_idle /\ sweep_idle /\ kmeans_idle

NextBissect == BI_bissect

SpecBissect == InitBissect /\ [][NextBissect]_vars

(***************************************************************************)
(* C22: bissect(unrouted, angles) returns the unrouted customers, each     *)
(* once, in ascending order of angle with equal angles in index order: the *)
(* phase-1 order of calculate_angles restricted to the unrouted customers. *)
(***************************************************************************)
\* the list s without the customers that are not in keep
restricted(s, keep) ==
    LET kept(idx) == idx \in keep
    IN  SelectSeq(s, kept)

\* s lists its customers by ascending angle, equal angles by ascending index
by_angle_then_index(s, angles) ==
    \A p, q \in 1..Len(s) :
        p < q => \/ angles[s[p]] < angles[s[q]]
                 \/ angles[s[p]] = angles[s[q]] /\ s[p] < s[q]

C22_BissectIsAngleOrderOfLeftovers ==
    (entry = "bissect" /\ pc = "done") =>
        /\ Len(ret) = Len(probe_route)
        /\ Range(ret) = Range(probe_route)
        /\ by_angle_then_index(ret, calculate_angles(customers)[2])
        /\ ret = restricted(calculate_angles(customers)[1], Range(probe_route))

\* bissect re-ordered three customers or more, two of them at the same
\* angle, given with the customer of smallest angle last
C22_Witness ==
    /\ entry = "bissect" /\ pc = "done"
    /\ Len(ret) >= 3
    /\ ret # probe_route
    /\ ret[1] = probe_route[Len(probe_route)]
    /\ \E p \in 1..(Len(ret) - 1) :
           calculate_angles(customers)[2][ret[p]] = calculate_angles(customers)[2][ret[p + 1]]

(***************************************************************************)
(* C23: with vehicle_number >= 1, insertion_heuristic never holds more     *)
(* than vehicle_number routes, it is done as soon as it holds that many,   *)
(* and no customer is in its routes more than once; sweep_heuristic        *)
(* appends the route of every sector whatever the number of routes is and  *)
(* returns only when no customer is left, so it can return more than       *)
(* vehicle_number routes.                                                  *)
(***************************************************************************)
capped ==
    /\ Len(routes) <= vehicle_number
    /\ Len(routes) = vehicle_number => pc = "done"
    /\ \A c \in 1..n_customers : occurrences(routes, c) <= 1

uncapped ==
    /\ pc = "st_returned" => Len(routes') = Len(routes) + 1 /\ pc' # "done"
    /\ pc' = "done" => sweep_unrouted = <<>>

C23_PlainFrontEndCapsRoutes ==
    [][/\ (entry = "insertion_heuristic" /\ vehicle_number >= 1) => capped'
       /\ entry = "sweep_heuristic" => uncapped]_vars

\* insertion_heuristic stopped at two routes of two vehicles with customers
\* still unrouted
C23_Witness ==
    /\ entry = "insertion_heuristic" /\ pc = "done"
    /\ vehicle_number >= 2
    /\ Len(routes) = vehicle_number
    /\ unrouted_customers # <<>>

(***************************************************************************)
(* time_oriented_nn: the nearest-neighbour front-end.  It uses the oracle  *)
(* of vrptw_functions, the same code as the oracle of solomon_insertion.   *)
(* The deltas are in tenths, which scales every cost by 10.  The list of   *)
(* routes is followed up to MaxRoutes routes.                              *)
(***************************************************************************)
\* the parameter sets of best_run, in tenths
ToParamSets ==
    { [delta_1 |-> 4,  delta_2 |-> 4,  delta_3 |-> 2],
      [delta_1 |-> 0,  delta_2 |-> 10, delta_3 |-> 0],
      [delta_1 |-> 5,  delta_2 |-> 5,  delta_3 |-> 0],
      [delta_1 |-> 3,  delta_2 |-> 3,  delta_3 |-> 4] }

\* lines 30-33: the last customer of the route, the depot if there is none
last_stop(rt) == IF rt = <<>> THEN 0 ELSE rt[Len(rt)]

\* lines 47-50: cij of appending i to rt
cij(rt, i) ==
    LET j == last_stop(rt)
        new_route == Append(rt, i)
        leave == begin_time(i, new_route) + customers[i].service_time
        T == begin_time(j, new_route) - leave
        v == customers[j].due_date - (leave + t[i][j])
    IN  to_params.delta_1 * d[i][j] + to_params.delta_2 * T + to_params.delta_3 * v

\* lines 36-52: the unrouted customers that pass the capacity test and the
\* time window test, in the order of unrouted_customers
append_candidates(rt, pool, ld) ==
    LET feasible(i) ==
            /\ ~(ld + customers[i].demand > capacity)
            /\ check_time_windows(Append(rt, i))
    IN  SelectSeq(pool, feasible)

\* line 25 and lines 26-27: one more route is started
TO_Start ==
    /\ entry = "time_oriented_nn" /\ pc = "to_while"
    /\ Len(unrouted_customers) > 0
    /\ Len(routes) < MaxRoutes
    /\ route' = <<>>
    /\ load' = 0
    /\ pc' = "to_grow"
    /\ UNCHANGED <<inputs, entry, raised, cluster, unrouted_customers, routes, stdout>>
    /\ sweep_idle /\ oracle_idle /\ kmeans_idle

\* lines 58-62
TO_Append ==
    /\ entry = "time_oriented_nn" /\ pc = "to_grow"
    /\ LET cands == append_candidates(route, unrouted_customers, load)
       IN  /\ cands # <<>>
           /\ LET i == PyMax(cands, [c \in Range(cands) |-> cij(route, c)])
              IN  /\ route' = Append(route, i)
                  /\ load' = load + customers[i].demand
                  /\ unrouted_customers' = PyRemove(unrouted_customers, i)
    /\ UNCHANGED <<inputs, entry, pc, raised, cluster, routes, stdout>>
    /\ sweep_idle /\ oracle_idle /\ kmeans_idle

\* lines 54-56: routes.append(route); break
TO_Close ==
    /\ entry = "time_oriented_nn" /\ pc = "to_grow"
    /\ append_candidates(route, unrouted_customers, load) = <<>>
    /\ routes' = Append(routes, route)
    /\ pc' = "to_while"
    /\ UNCHANGED <<inputs, entry, raised, cluster, route, unrouted_customers, load, stdout>>
    /\ sweep_idle /\ oracle_idle /\ kmeans_idle

\* line 64
TO_Return ==
    /\ entry = "time_oriented_nn" /\ pc = "to_while"
    /\ Len(unrouted_customers) = 0
    /\ pc' = "done"
    /\ UNCHANGED <<inputs, entry, raised, cluster, route, unrouted_customers, load,
                   routes, stdout>>
    /\ sweep_idle /\ oracle_idle /\ kmeans_idle

InitTonn ==
    /\ customers \in Instances
    /\ capacity \in 0..MaxCapacity
    /\ vehicle_number = 1
    /\ i1_params \in {p \in ParamSets : p.lam = 1 /\ p.alpha_1 = 1}
    /\ init_criterium = 0
    /\ d = calculate_distances(customers)
    /\ max_iter = 0
    /\ to_params \in ToParamSets
    /\ entry = "time_oriented_nn"
    /\ pc = "to_while"
    /\ raised = ""
    /\ cluster = <<>>
    /\ route = <<>>
    /\ unrouted_customers = index_order(customers)
    /\ load = 0
    /\ routes = <<>>
    /\ stdout = <<>>
    /\ clusters = << <<>> >>
    /\ ci = 1
    /\ sweep_unrouted = <<>>
    /\ round = 0
    /\ probe_route = <<>>
    /\ probe_target = 0
    /\ probe_u = 0
    /\ ret = <<>>
    /\ kmeans_k = 0
    /\ centroid_customers = <<>>
    /\ kmeans_unrouted = <<>>

NextTonn == TO_Start \/ TO_Append \/ TO_Close \/ TO_Return

SpecTonn == InitTonn /\ [][NextTonn]_vars

(***************************************************************************)
(* C24: time_oriented_nn terminates on every instance with every customer  *)
(* in its routes: every pass of its outer loop routes a customer at least, *)
(* so no empty route is appended and there are no more routes than         *)
(* customers, also when a customer cannot be served as the only customer   *)
(* of a route.                                                             *)
(***************************************************************************)
C24_TonnTerminatesWithEveryCustomer ==
    entry = "time_oriented_nn" =>
        /\ \A m \in 1..Len(routes) : routes[m] # <<>>
        /\ Len(routes) <= n_customers
        /\ pc = "done" => \A c \in 1..n_customers : occurrences(routes, c) = 1

=========================================================================
